---- MODULE Spec2Model ----
(***************************************************************************)
(* The job orchestration engine of the image-to-video service:             *)
(* api/tasks.py (run_command, image_to_video, cleanup_temp_files) with     *)
(* api/utils/error_recovery.py (ProcessingCheckpoint) and                  *)
(* api/utils/cache_manager.py (CacheManager).                              *)
(*                                                                         *)
(* Text (paths, JSON, digests) is a sequence of string tokens, so that     *)
(* formatting and concatenation are computed and not assumed.              *)
(***************************************************************************)
EXTENDS Integers, Sequences, FiniteSets, TLC

\* ------------------------------------------------------------------ bounds
\* Runs (first submission and resubmissions) a task id may go through.
MaxRuns == 2
\* External deletions of files under the output directory.
MaxDeletes == 1
\* Calls made on a checkpoint object that is used on its own.
MaxCalls == 4
\* Calls of update_history on a monitor that is used on its own.
MaxSamples == 102
\* Iterations of the loop of the monitor thread.
MaxTicks == 2
\* Calls of update on a tracker that is used on its own.
MaxUpdates == 5
\* Seconds the clock of a tracker can show.
MaxElapsed == 3

\* Celery task ids (self.request.id) of the jobs of the model.
JobIds == {"t1", "t2"}

\* The task ids a worker that takes one job at a time goes through in Spec.
Solo == {"t1"}

\* ------------------------------------------------------------ config, text
OUTPUT_DIR == "/app/videos/"
CACHE_DIR == "/app/cache/"

NoPath == <<>>

\* The fixed order of the stages in image_to_video, by checkpoint step name.
StageOrder ==
    <<"image_to_video", "super_resolution", "denoise", "speech_to_text",
      "framerate_boost">>

Stages == {StageOrder[i] : i \in 1..Len(StageOrder)}

\* Step names that reach step_failed: the stages and the executor's own.
StepNames == Stages \cup {"processing"}

StageIndex(s) == CHOOSE i \in 1..Len(StageOrder) : StageOrder[i] = s

\* The ai_options key that requests a stage ("" for the mandatory stage).
OptionOf(s) ==
    CASE s = "super_resolution" -> "superres"
      [] s = "denoise" -> "denoise"
      [] s = "speech_to_text" -> "speech2text"
      [] s = "framerate_boost" -> "framerateboost"
      [] OTHER -> ""

\* base_output = output_dir / f"video_output_{self.request.id}.mp4"
base_output(id) == <<OUTPUT_DIR, "video_output_", id, ".mp4">>

\* The --output path the executor gives to each stage's command.
OutputOf(id, s) ==
    CASE s = "image_to_video" -> base_output(id)
      [] s = "super_resolution" -> <<OUTPUT_DIR, "video_superres.mp4">>
      [] s = "denoise" -> <<OUTPUT_DIR, "video_denoised.mp4">>
      [] s = "speech_to_text" -> <<OUTPUT_DIR, "transcription.txt">>
      [] OTHER -> <<OUTPUT_DIR, "video_fps_boosted.mp4">>

FeedsForward_always(s) == TRUE

\* Whether the executor feeds the stage's output to the next stage.
FeedsForward(s) == s # "speech_to_text"

\* The error_message of each run_command call, returned in the result.
ErrorMessage(s) ==
    CASE s = "image_to_video" -> "Failed to convert images to video"
      [] s = "super_resolution" -> "Super resolution enhancement failed"
      [] s = "denoise" -> "Denoising failed"
      [] s = "speech_to_text" -> "Speech to text conversion failed"
      [] OTHER -> "Framerate boost failed"

\* ------------------------------------------------------------ python dicts
\* A dict is the sequence of its <<key, value>> pairs in insertion order.
DictKeys(d) == {d[i][1] : i \in 1..Len(d)}

DictGet(d, k) ==
    IF k \in DictKeys(d)
    THEN d[CHOOSE i \in 1..Len(d) : d[i][1] = k][2]
    ELSE "None"

\* Python truthiness of a JSON value (None, false, 0 and "" are falsy).
Truthy(v) == v \notin {"None", "null", "false", "0", ""}

\* Alphabetical rank of the keys a request holds.
KeyRank(k) ==
    CASE k = "ai_options" -> 1
      [] k = "denoise" -> 2
      [] k = "fps" -> 3
      [] k = "framerateboost" -> 4
      [] k = "input" -> 5
      [] k = "speech2text" -> 6
      [] OTHER -> 7

RECURSIVE InsertByKey(_, _)
InsertByKey(sorted, pair) ==
    IF sorted = <<>> THEN <<pair>>
    ELSE IF KeyRank(pair[1]) < KeyRank(Head(sorted)[1])
         THEN <<pair>> \o sorted
         ELSE <<Head(sorted)>> \o InsertByKey(Tail(sorted), pair)

RECURSIVE SortByKey(_)
SortByKey(d) ==
    IF d = <<>> THEN <<>>
    ELSE InsertByKey(SortByKey(Tail(d)), Head(d))

RECURSIVE Flatten(_)
Flatten(seqs) ==
    IF seqs = <<>> THEN <<>> ELSE Head(seqs) \o Flatten(Tail(seqs))

\* json.dumps of a flat dict of scalars: {"k": v, ...}
DumpsDict(d, sort_keys) ==
    LET e == IF sort_keys THEN SortByKey(d) ELSE d
    IN <<"{">> \o Flatten([i \in 1..Len(e) |-> <<e[i][1], ":", e[i][2], ",">>])
       \o <<"}">>

\* A request is [keys, input, fps, ai_options]: keys is the insertion order
\* of its top-level keys, input a list of paths, ai_options a dict.
DumpsValue(request, k, sort_keys) ==
    CASE k = "input" -> <<"[">> \o request.input \o <<"]">>
      [] k = "fps" -> <<request.fps>>
      [] OTHER -> DumpsDict(request.ai_options, sort_keys)

\* json.dumps(request, sort_keys=...)
JsonDumps(request, sort_keys) ==
    LET pairs == [i \in 1..Len(request.keys) |-> <<request.keys[i], "">>]
        e == IF sort_keys THEN SortByKey(pairs) ELSE pairs
    IN <<"{">>
       \o Flatten([i \in 1..Len(e) |->
                     <<e[i][1], ":">> \o DumpsValue(request, e[i][1], sort_keys)
                     \o <<",">>])
       \o <<"}">>

\* str(request["input"]): the repr of the list, one text.
StrOfList(input) == <<"['">> \o input \o <<"']">>

\* hashlib.md5(...).hexdigest(): a digest, taken to be collision free.
Md5(text) == <<"md5(">> \o text \o <<")">>

\* ------------------------------------------------------------ CacheManager
\* get_cache_key reads the file at input_path; bytes[p] is its content and
\* "absent" when there is no such file (open() raises).
KeyRaises(bytes, input_path) ==
    input_path \notin DOMAIN bytes \/ bytes[input_path] = "absent"

get_cache_key(bytes, input_path, operation, params) ==
    <<operation, "_">> \o Md5(<<bytes[input_path]>>) \o <<"_">>
    \o Md5(JsonDumps(params, TRUE))

\* cache_path = self.cache_dir / f"{cache_key}.mp4"
cache_path(cache_key) == <<CACHE_DIR>> \o cache_key \o <<".mp4">>

\* --------------------------------------------------------------- storage
\* A file a stage wrote: who wrote it, and whether the stage finished it.
NoFile == [by |-> "", stage |-> "", full |-> FALSE]

\* The paths under OUTPUT_DIR the executor gives to its stages.
OutPaths == {OutputOf(id, s) : id \in JobIds, s \in Stages}

\* Path.exists() / os.path.exists(): a symlink exists if its target does.
PathExists(fs, lk, p) ==
    \/ p \in DOMAIN fs /\ fs[p] # NoFile
    \/ \E l \in lk : l.path = p /\ l.target \in DOMAIN fs /\ fs[l.target] # NoFile

\* os.path.lexists(): the directory entry is there, dangling or not.
PathLExists(fs, lk, p) ==
    \/ p \in DOMAIN fs /\ fs[p] # NoFile
    \/ \E l \in lk : l.path = p

get_cached_result_lexists(fs, lk, key) ==
    IF PathLExists(fs, lk, cache_path(key)) THEN cache_path(key) ELSE NoPath

\* CacheManager.get_cached_result: None is NoPath.
get_cached_result(fs, lk, key) ==
    IF PathExists(fs, lk, cache_path(key)) THEN cache_path(key) ELSE NoPath

CacheResultRaises_never(fs, lk, key) == FALSE

\* os.symlink raises FileExistsError when the link path is taken.
CacheResultRaises(fs, lk, key) == PathLExists(fs, lk, cache_path(key))

\* CacheManager.cache_result, when os.symlink does not raise.
cache_result_other_name(lk, key, result_path) ==
    lk \cup {[key |-> key, path |-> <<CACHE_DIR>> \o key, target |-> result_path]}

cache_result(lk, key, result_path) ==
    lk \cup {[key |-> key, path |-> cache_path(key), target |-> result_path]}

\* ----------------------------------------------------- ProcessingCheckpoint
NoCommand == [stage |-> "", input |-> NoPath, output |-> NoPath, arg |-> ""]

NoError == [step |-> "", error |-> "", count |-> 0]

\* The state of load_checkpoint when there is no checkpoint file. A dict
\* over step names holds NoPath, NoCommand or 0 where it has no key.
EmptyState ==
    [completed_steps |-> <<>>,
     current_step |-> "",
     intermediate_files |-> [s \in StepNames |-> NoPath],
     parameters |-> [s \in StepNames |-> NoCommand],
     error_count |-> [s \in StepNames |-> 0],
     last_error |-> NoError]

NoCheckpointFile == [exists |-> FALSE, state |-> EmptyState]

load_checkpoint(file) == IF file.exists THEN file.state ELSE EmptyState

step_completed(st, step_name, output_file, parameters) ==
    [st EXCEPT
        !.completed_steps = Append(@, step_name),
        !.intermediate_files[step_name] =
            IF output_file # NoPath THEN output_file ELSE @,
        !.parameters[step_name] =
            IF parameters # NoCommand THEN parameters ELSE @]

step_failed(st, step_name, error) ==
    [st EXCEPT
        !.error_count[step_name] = @ + 1,
        !.last_error = [step |-> step_name, error |-> error,
                        count |-> st.error_count[step_name] + 1]]

InSeq(x, seq) == \E i \in 1..Len(seq) : seq[i] = x

can_resume_from_listed(st, fs, lk, step_name) ==
    InSeq(step_name, st.completed_steps)

\* ProcessingCheckpoint.can_resume_from
can_resume_from(st, fs, lk, step_name) ==
    /\ InSeq(step_name, st.completed_steps)
    /\ st.intermediate_files[step_name] # NoPath
    /\ PathExists(fs, lk, st.intermediate_files[step_name])

should_retry_inclusive(st, step_name, max_retries) ==
    st.error_count[step_name] <= max_retries

\* ProcessingCheckpoint.should_retry
should_retry(st, step_name, max_retries) ==
    st.error_count[step_name] < max_retries

\* ------------------------------------------------------------ run_command
\* Outcomes of subprocess.run with check=True and a timeout.
Outcomes == {"ok", "fail", "timeout"}

\* str(e) of the exceptions the executor records.
ExitMessage == "returned non-zero exit status"
SaveMessage == "FileNotFoundError"

\* run_command(command, error_message, task, checkpoint, step_name) on a
\* checkpoint object in state st; can_save tells whether save_checkpoint can
\* open the checkpoint file (the task temp directory is there). The value is
\* [ret, state, saved]: ret is "True", "False", "Ignore" (the exception
\* raised on a timeout) or "Raise" (an exception of save_checkpoint that
\* leaves run_command); saved tells whether state reached the file.
run_command(st, can_save, outcome, command, step_name) ==
    IF outcome = "ok"
    THEN IF can_save
         THEN [ret |-> "True",
               state |-> step_completed(st, step_name, NoPath, command),
               saved |-> TRUE]
         ELSE \* save_checkpoint raises in step_completed; the handler of
              \* Exception calls step_failed, whose save raises again
              [ret |-> "Raise",
               state |-> step_failed(
                           step_completed(st, step_name, NoPath, command),
                           step_name, SaveMessage),
               saved |-> FALSE]
    ELSE IF outcome = "timeout"
    THEN [ret |-> IF can_save THEN "Ignore" ELSE "Raise",
          state |-> step_failed(st, step_name, "Command timeout"),
          saved |-> can_save]
    ELSE [ret |-> IF can_save THEN "False" ELSE "Raise",
          state |-> step_failed(st, step_name, ExitMessage),
          saved |-> can_save]

\* ------------------------------------------------------------- the requests
InputLists == {<<"a.png", "b.png">>}

\* The ai_options maps of the requests of the model.
OptionDicts ==
    {<<>>,
     <<<<"superres", "x2">>>>,
     <<<<"superres", "x2">>, <<"denoise", "true">>>>,
     <<<<"denoise", "false">>, <<"speech2text", "true">>,
       <<"framerateboost", "60">>>>}

Requests ==
    {[keys |-> <<"input", "fps", "ai_options">>, input |-> i, fps |-> "24",
      ai_options |-> o] : i \in InputLists, o \in OptionDicts}

NoRequest ==
    [keys |-> <<>>, input |-> <<>>, fps |-> "", ai_options |-> <<>>]

Requested_if_present(request, s) ==
    s = "image_to_video" \/ OptionOf(s) \in DictKeys(request.ai_options)

\* ai_options.get(option) is truthy, for the option of stage s.
Requested(request, s) ==
    s = "image_to_video" \/ Truthy(DictGet(request.ai_options, OptionOf(s)))

\* The first stage after position i that the request asks for.
RECURSIVE StageAfter(_, _)
StageAfter(request, i) ==
    IF i >= Len(StageOrder) THEN "finish"
    ELSE IF Requested(request, StageOrder[i + 1]) THEN StageOrder[i + 1]
         ELSE StageAfter(request, i + 1)

\* total_steps = 1 + sum(1 for opt in ai_options.values() if opt)
total_steps(request) ==
    1 + Cardinality({i \in 1..Len(request.ai_options) :
                        Truthy(request.ai_options[i][2])})

\* The argument a stage's command takes besides --input and --output.
ArgOf(request, s) ==
    CASE s = "image_to_video" -> request.fps
      [] s = "super_resolution" -> DictGet(request.ai_options, "superres")
      [] s = "framerate_boost" -> DictGet(request.ai_options, "framerateboost")
      [] OTHER -> ""

\* ----------------------------------------------------------------- results
NoResult ==
    [status |-> "", output |-> NoPath, transcription |-> NoPath,
     cached |-> FALSE, error |-> ""]

CachedResult(path) == [NoResult EXCEPT !.status = "Complete", !.output = path,
                                       !.cached = TRUE]

ErrorResult(message) == [NoResult EXCEPT !.status = "Error", !.error = message]

\* An exception that leaves image_to_video: the task returns no result.
RaisedResult == [NoResult EXCEPT !.status = "Raised"]

CompleteResult(id, request) ==
    [NoResult EXCEPT
        !.status = "Complete",
        !.output = base_output(id),
        !.transcription =
            IF Truthy(DictGet(request.ai_options, "speech2text"))
            THEN <<OUTPUT_DIR, "transcription.txt">> ELSE NoPath]

\* --------------------------------------------------------- ResourceMonitor
\* self.max_history
max_history == 100

\* The value of every entry of self.thresholds.
DEFAULT_THRESHOLD == 90

thresholds ==
    [k \in {"cpu_percent", "memory_percent", "gpu_util_percent",
            "gpu_memory_percent", "disk_percent"} |-> DEFAULT_THRESHOLD]

\* A dict with no key.
EmptyDict == [k \in {} |-> 0]

\* What psutil and torch report when the monitor asks: probe is
\* [cpu, mem, gpu_available, gpu_util, gpu_used, gpu_total, disk_ok,
\* disk_percent].
QuietProbe ==
    [cpu |-> 50, mem |-> 50, gpu_available |-> FALSE, gpu_util |-> 0,
     gpu_used |-> 0, gpu_total |-> 100, disk_ok |-> TRUE, disk_percent |-> 50]

\* get_gpu_stats: None is the dict with no key.
get_gpu_stats(probe) ==
    IF probe.gpu_available
    THEN [gpu_util |-> probe.gpu_util,
          gpu_mem_total |-> probe.gpu_total,
          gpu_mem_used |-> probe.gpu_used,
          gpu_mem_percent |-> (probe.gpu_used * 100) \div probe.gpu_total]
    ELSE EmptyDict

\* get_disk_stats: None is the dict with no key.
get_disk_stats(probe) ==
    IF probe.disk_ok
    THEN [total |-> 100, used |-> probe.disk_percent,
          free |-> 100 - probe.disk_percent, percent |-> probe.disk_percent]
    ELSE EmptyDict

\* The stats dict run builds: dict.update lets the later dict win.
collect_stats(probe, now) ==
    get_disk_stats(probe)
    @@ get_gpu_stats(probe)
    @@ [cpu_percent |-> probe.cpu, memory_percent |-> probe.mem,
        timestamp |-> now]

Warning(metric, value) == [metric |-> metric, value |-> value]

\* check_thresholds(stats): the list of warnings.
check_thresholds(stats) ==
    (IF stats["cpu_percent"] > thresholds["cpu_percent"]
     THEN <<Warning("CPU usage critical", stats["cpu_percent"])>> ELSE <<>>)
    \o (IF stats["memory_percent"] > thresholds["memory_percent"]
        THEN <<Warning("Memory usage critical", stats["memory_percent"])>>
        ELSE <<>>)
    \o (IF "gpu_util" \in DOMAIN stats
           /\ stats["gpu_util"] > thresholds["gpu_util_percent"]
        THEN <<Warning("GPU utilization critical", stats["gpu_util"])>>
        ELSE <<>>)
    \o (IF "gpu_mem_percent" \in DOMAIN stats
           /\ stats["gpu_mem_percent"] > thresholds["gpu_memory_percent"]
        THEN <<Warning("GPU memory usage critical", stats["gpu_mem_percent"])>>
        ELSE <<>>)
    \o (IF "disk_percent" \in DOMAIN stats
           /\ stats["disk_percent"] > thresholds["disk_percent"]
        THEN <<Warning("Disk usage critical", stats["disk_percent"])>>
        ELSE <<>>)

update_history_drops_newest(history, stats, now) ==
    LET h == Append(history, [timestamp |-> now, stats |-> stats])
    IN IF Len(h) > max_history THEN SubSeq(h, 1, Len(h) - 1) ELSE h

\* update_history(stats), time.time() being now.
update_history(history, stats, now) ==
    LET h == Append(history, [timestamp |-> now, stats |-> stats])
    IN IF Len(h) > max_history THEN Tail(h) ELSE h

LoopContinues_always(m) == TRUE

\* while self.running
LoopContinues(m) == m.running

\* The monitor after tasks.py has built and started it: the thread is at
\* the test of its loop. samples counts the samples taken, probe is what the
\* last sample read, stopped_at is samples when stop() was called, -1 before.
NewMonitor ==
    [running |-> TRUE, history |-> <<>>, pc |-> "check", samples |-> 0,
     warnings |-> <<>>, probe |-> QuietProbe, stopped_at |-> -1,
     joined |-> FALSE]

\* ------------------------------------------------------- ProgressTracker
\* A number that is not whole, as the fraction num / den.
Zero == [num |-> 0, den |-> 1]

\* No tracker has been made.
NoTracker ==
    [total_steps |-> 0, current_step |-> 0, elapsed |-> 0, remaining |-> Zero,
     updates |-> 0, raised |-> FALSE, ai_options |-> <<>>]

\* ProgressTracker(total_steps), made for a request with the map ai_options.
ProgressTracker(total, ai_options) ==
    [NoTracker EXCEPT !.total_steps = total, !.ai_options = ai_options]

\* An update that divides whatever current_step is.
update_unguarded(t, step, elapsed) ==
    LET current == t.current_step + step
    IN [t EXCEPT
           !.current_step = current,
           !.elapsed = elapsed,
           !.updates = @ + 1,
           !.raised = (current = 0),
           !.remaining = [num |-> elapsed * (t.total_steps - current),
                          den |-> current]]

\* ProgressTracker.update(step, status), elapsed being what the clock gives:
\* remaining is time_per_step * (total_steps - current_step), and 0 when
\* current_step is not positive.
update(t, step, elapsed) ==
    LET current == t.current_step + step
    IN [t EXCEPT
           !.current_step = current,
           !.elapsed = elapsed,
           !.updates = @ + 1,
           !.raised = (t.total_steps = 0),
           !.remaining = IF current > 0
                         THEN [num |-> elapsed * (t.total_steps - current),
                               den |-> current]
                         ELSE Zero]

\* ------------------------------------------------------------------- state
VARIABLES
    bytes,          \* content of the uploaded files and of the files beside them
    fsys,           \* the files under OUTPUT_DIR
    links,          \* the symlinks under the cache directory
    tmpdir,         \* per task id: its directory under TEMP_DIR
    ckptfile,       \* per task id: its checkpoint file
    pc,             \* per task id: where its run of image_to_video stands
    req,            \* per task id: the request it was submitted with
    runs,           \* per task id: how many times it was submitted
    mem,            \* per task id: the state of its checkpoint object
    progress,       \* per task id: its ProgressTracker
    current_input,  \* per task id: the local current_input
    cache_key,      \* per task id: the local cache_key
    result,         \* per task id: what its last run returned
    invoked,        \* per task id: the commands its run has executed
    atstart,        \* per task id: the checkpoint and files its run found
    deleted,        \* the paths deleted from outside, in order
    calls,          \* per task id: the calls made on its checkpoint object
    file_size,          \* get_task_priority: the argument file_size
    processing_options, \* get_task_priority: the argument processing_options
    priority,           \* get_task_priority: the value returned, -1 before
    monitor,            \* the ResourceMonitor thread and its fields
    tracker             \* a ProgressTracker that is used on its own

\* The state of image_to_video and of what it works on.
engine ==
    <<bytes, fsys, links, tmpdir, ckptfile, pc, req, runs, mem, progress,
      current_input, cache_key, result, invoked, atstart, deleted>>

\* The state of the utilities when they are called on their own.
standalone ==
    <<calls, file_size, processing_options, priority, monitor, tracker>>

vars == <<engine, standalone>>

\* No utility has been called on its own.
StandaloneIdle ==
    /\ calls = [id \in JobIds |-> <<>>]
    /\ file_size = 0
    /\ processing_options = <<>>
    /\ priority = -1
    /\ monitor = NewMonitor
    /\ tracker = NoTracker

\* What a run found when it started: the stages of the loaded
\* completed_steps, the stages whose output file was there, whether the
\* cache entry of its key was dangling, whether that was because the artifact
\* had been deleted from outside, what the run before it returned and whether
\* the artifact of that result was still there.
NoSnapshot ==
    [completed |-> {}, present |-> {}, dangling |-> FALSE, lost |-> FALSE,
     previous |-> NoResult, artifact |-> FALSE]

UploadPaths == UNION {{<<i[n]>> : n \in 1..Len(i)} : i \in InputLists}

ListPaths == {StrOfList(i) : i \in InputLists}

Init ==
    /\ bytes \in {b \in [UploadPaths \cup ListPaths -> {"absent", "A"}] :
                    \A p \in UploadPaths : b[p] = "A"}
    /\ fsys = [p \in OutPaths |-> NoFile]
    /\ links = {}
    /\ tmpdir = [id \in JobIds |-> "absent"]
    /\ ckptfile = [id \in JobIds |-> NoCheckpointFile]
    /\ pc = [id \in JobIds |-> "new"]
    /\ req = [id \in JobIds |-> NoRequest]
    /\ runs = [id \in JobIds |-> 0]
    /\ mem = [id \in JobIds |-> EmptyState]
    /\ progress = [id \in JobIds |-> [current_step |-> 0, total_steps |-> 0]]
    /\ current_input = [id \in JobIds |-> NoPath]
    /\ cache_key = [id \in JobIds |-> NoPath]
    /\ result = [id \in JobIds |-> NoResult]
    /\ invoked = [id \in JobIds |-> <<>>]
    /\ atstart = [id \in JobIds |-> NoSnapshot]
    /\ deleted = <<>>
    /\ StandaloneIdle

\* ----------------------------------------------------------------- actions
\* The admission layer queues a request under a fresh task id.
Submit(id, request) ==
    /\ pc[id] = "new"
    /\ pc' = [pc EXCEPT ![id] = "queued"]
    /\ req' = [req EXCEPT ![id] = request]
    /\ runs' = [runs EXCEPT ![id] = 1]
    /\ UNCHANGED <<standalone, bytes, fsys, links, tmpdir, ckptfile, mem, progress,
                   current_input, cache_key, result, invoked, atstart, deleted>>

\* The caller submits the request again under the same task id.
Resubmit(id) ==
    /\ pc[id] = "done"
    /\ runs[id] < MaxRuns
    /\ pc' = [pc EXCEPT ![id] = "queued"]
    /\ runs' = [runs EXCEPT ![id] = @ + 1]
    /\ UNCHANGED <<standalone, bytes, fsys, links, tmpdir, ckptfile, req, mem, progress,
                   current_input, cache_key, result, invoked, atstart, deleted>>

\* cleanup_temp_files(TEMP_DIR): every item older than TEMP_FILE_TTL goes.
cleanup_temp_files(dirs) ==
    [id \in DOMAIN dirs |-> IF dirs[id] = "old" THEN "absent" ELSE dirs[id]]

\* The item of TEMP_DIR an upload is, "" when it lies elsewhere.
TempItemOf(name) == IF name = "/app/temp/c.png" THEN "c.png" ELSE ""

\* The uploads after the sweep of TEMP_DIR left the items of dirs: os.remove
\* took the uploads that were items older than TEMP_FILE_TTL.
SweptUploads(files, dirs) ==
    [p \in DOMAIN files |->
        IF /\ Len(p) = 1
           /\ TempItemOf(p[1]) \in DOMAIN dirs
           /\ dirs[TempItemOf(p[1])] = "absent"
        THEN "absent" ELSE files[p]]

\* The handler of Exception of image_to_video, entered with the checkpoint
\* object in state st: step_failed("processing", str(e)), then the Error
\* result, unless save_checkpoint raises in the handler.
OuterExcept(st, can_save, message) ==
    [state |-> step_failed(st, "processing", message),
     saved |-> can_save,
     result |-> IF can_save THEN ErrorResult(message) ELSE RaisedResult]

SavedFile_unwritten(st) == [exists |-> TRUE, state |-> EmptyState]

\* The checkpoint file after a save of state st (a new file in the
\* directory renews the directory's change time).
SavedFile(st) == [exists |-> TRUE, state |-> st]

DirAfterSave(dir, file) == IF file.exists THEN dir ELSE "fresh"

cleanup_keeps_files(st, fs) == fs

\* ProcessingCheckpoint.cleanup on the files under OUTPUT_DIR: every file of
\* intermediate_files that exists is unlinked.
cleanup(st, fs) ==
    [p \in DOMAIN fs |->
        IF \E s \in StepNames : st.intermediate_files[s] = p
        THEN NoFile ELSE fs[p]]

\* image_to_video up to the cache lookup: the task temp directory and the
\* checkpoint object, the tracker, the sweep of TEMP_DIR, the cache key and
\* the cache lookup.
Start(id) ==
    /\ pc[id] = "queued"
    /\ LET dirs0 == [tmpdir EXCEPT ![id] = IF @ = "absent" THEN "fresh" ELSE @]
           st0 == load_checkpoint(ckptfile[id])
           dirs1 == cleanup_temp_files(dirs0)
           files1 == [k \in JobIds |->
                        IF dirs1[k] = "absent" THEN NoCheckpointFile
                        ELSE ckptfile[k]]
           list_path == StrOfList(req[id].input)
           key == get_cache_key(bytes, list_path, "image_to_video", req[id])
           hit == get_cached_result(fsys, links, key)
           exc == OuterExcept(st0, dirs1[id] # "absent", SaveMessage)
       IN /\ progress' = [progress EXCEPT ![id] =
                            [current_step |-> 0,
                             total_steps |-> total_steps(req[id])]]
          /\ invoked' = [invoked EXCEPT ![id] = <<>>]
          /\ atstart' = [atstart EXCEPT ![id] =
                [completed |-> {s \in Stages : InSeq(s, st0.completed_steps)},
                 present |-> {s \in Stages :
                                PathExists(fsys, links, OutputOf(id, s))},
                 dangling |-> /\ ~KeyRaises(bytes, list_path)
                              /\ PathLExists(fsys, links, cache_path(key))
                              /\ ~PathExists(fsys, links, cache_path(key)),
                 lost |-> /\ ~KeyRaises(bytes, list_path)
                          /\ \E l \in links : /\ l.path = cache_path(key)
                                              /\ fsys[l.target] = NoFile
                                              /\ InSeq(l.target, deleted),
                 previous |-> result[id],
                 artifact |-> PathExists(fsys, links, result[id].output)]]
          /\ IF KeyRaises(bytes, list_path)
             THEN /\ mem' = [mem EXCEPT ![id] = exc.state]
                  /\ ckptfile' = IF exc.saved
                                 THEN [files1 EXCEPT ![id] = SavedFile(exc.state)]
                                 ELSE files1
                  /\ tmpdir' = IF exc.saved
                               THEN [dirs1 EXCEPT ![id] =
                                       DirAfterSave(@, files1[id])]
                               ELSE dirs1
                  /\ result' = [result EXCEPT ![id] = exc.result]
                  /\ pc' = [pc EXCEPT ![id] = "done"]
                  /\ UNCHANGED <<cache_key, current_input>>
             ELSE /\ mem' = [mem EXCEPT ![id] = st0]
                  /\ ckptfile' = files1
                  /\ tmpdir' = dirs1
                  /\ cache_key' = [cache_key EXCEPT ![id] = key]
                  /\ current_input' = [current_input EXCEPT ![id] = req[id].input]
                  /\ IF hit # NoPath
                     THEN /\ result' = [result EXCEPT ![id] = CachedResult(hit)]
                          /\ pc' = [pc EXCEPT ![id] = "done"]
                     ELSE /\ result' = [result EXCEPT ![id] = NoResult]
                          /\ pc' = [pc EXCEPT ![id] = "image_to_video"]
    /\ bytes' = SweptUploads(bytes,
                    cleanup_temp_files(
                        [tmpdir EXCEPT ![id] = IF @ = "absent" THEN "fresh"
                                                ELSE @]))
    /\ UNCHANGED <<standalone, fsys, links, req, runs, deleted>>

\* What a stage's program reads exists.
StageInputExists(id, s) ==
    IF s = "image_to_video"
    THEN \A n \in 1..Len(req[id].input) : bytes[<<req[id].input[n]>>] # "absent"
    ELSE PathExists(fsys, links, current_input[id])

\* One stage of image_to_video: progress.update, run_command on the stage's
\* command, and the branch on its value. wrote tells whether the program
\* left a file at its output path.
Stage(id) ==
    /\ pc[id] \in Stages
    /\ \E outcome \in Outcomes, wrote \in BOOLEAN :
        LET s == pc[id]
            command == [stage |-> s,
                        input |-> IF s = "image_to_video" THEN req[id].input
                                  ELSE current_input[id],
                        output |-> OutputOf(id, s),
                        arg |-> ArgOf(req[id], s)]
            can_save == tmpdir[id] # "absent"
            rc == run_command(mem[id], can_save, outcome, command, s)
            exc == OuterExcept(rc.state, can_save,
                               IF rc.ret = "Ignore" THEN "" ELSE SaveMessage)
            raised == rc.ret \in {"Ignore", "Raise"}
            final == IF raised THEN exc.state ELSE rc.state
        IN /\ outcome = "ok" => StageInputExists(id, s)
           /\ progress' = [progress EXCEPT ![id].current_step = @ + 1]
           /\ invoked' = [invoked EXCEPT ![id] =
                  Append(@, [command |-> command, outcome |-> outcome,
                             wrote |-> wrote])]
           /\ fsys' = IF wrote
                      THEN [fsys EXCEPT ![command.output] =
                              [by |-> id, stage |-> s, full |-> outcome = "ok"]]
                      ELSE fsys
           /\ mem' = [mem EXCEPT ![id] = final]
           /\ ckptfile' = IF can_save
                          THEN [ckptfile EXCEPT ![id] = SavedFile(final)]
                          ELSE ckptfile
           /\ tmpdir' = IF can_save
                        THEN [tmpdir EXCEPT ![id] = DirAfterSave(@, ckptfile[id])]
                        ELSE tmpdir
           /\ IF rc.ret = "True"
              THEN /\ current_input' = [current_input EXCEPT ![id] =
                          IF FeedsForward(s) THEN command.output ELSE @]
                   /\ pc' = [pc EXCEPT ![id] = StageAfter(req[id], StageIndex(s))]
                   /\ result' = result
              ELSE /\ current_input' = current_input
                   /\ pc' = [pc EXCEPT ![id] = "done"]
                   /\ result' = [result EXCEPT ![id] =
                          IF raised THEN exc.result
                          ELSE ErrorResult(ErrorMessage(s))]
    /\ UNCHANGED <<standalone, bytes, links, req, runs, cache_key, atstart, deleted>>

\* The end of image_to_video: os.replace to the canonical path,
\* cache_result, rmtree of the task temp directory, checkpoint.cleanup, and
\* the Complete result.
Finish(id) ==
    /\ pc[id] = "finish"
    /\ LET base == base_output(id)
           cur == current_input[id]
           move_raises == cur # base /\ ~PathExists(fsys, links, cur)
           fs1 == IF cur # base /\ ~move_raises
                  THEN [fsys EXCEPT ![base] = fsys[cur], ![cur] = NoFile]
                  ELSE fsys
           link_raises == CacheResultRaises(fs1, links, cache_key[id])
           can_save == tmpdir[id] # "absent"
           exc == OuterExcept(mem[id], can_save,
                              IF move_raises THEN SaveMessage
                              ELSE "FileExistsError")
       IN IF move_raises \/ link_raises
          THEN /\ fsys' = fs1
               /\ links' = links
               /\ mem' = [mem EXCEPT ![id] = exc.state]
               /\ ckptfile' = IF can_save
                              THEN [ckptfile EXCEPT ![id] = SavedFile(exc.state)]
                              ELSE ckptfile
               /\ tmpdir' = IF can_save
                            THEN [tmpdir EXCEPT ![id] =
                                    DirAfterSave(@, ckptfile[id])]
                            ELSE tmpdir
               /\ result' = [result EXCEPT ![id] = exc.result]
          ELSE /\ fsys' = cleanup(mem[id], fs1)
               /\ links' = cache_result(links, cache_key[id], base)
               /\ mem' = mem
               /\ ckptfile' = [ckptfile EXCEPT ![id] = NoCheckpointFile]
               /\ tmpdir' = [tmpdir EXCEPT ![id] = "absent"]
               /\ result' = [result EXCEPT ![id] = CompleteResult(id, req[id])]
    /\ pc' = [pc EXCEPT ![id] = "done"]
    /\ UNCHANGED <<standalone, bytes, req, runs, progress, current_input, cache_key,
                   invoked, atstart, deleted>>

\* Somebody outside the engine deleted a file under OUTPUT_DIR.
ExternalDelete(p) ==
    /\ Len(deleted) < MaxDeletes
    /\ fsys[p] # NoFile
    /\ fsys' = [fsys EXCEPT ![p] = NoFile]
    /\ deleted' = Append(deleted, p)
    /\ UNCHANGED <<standalone, bytes, links, tmpdir, ckptfile, pc, req, runs, mem,
                   progress, current_input, cache_key, result, invoked, atstart>>

\* TEMP_FILE_TTL passes since the task temp directory last changed.
Age(id) ==
    /\ tmpdir[id] = "fresh"
    /\ tmpdir' = [tmpdir EXCEPT ![id] = "old"]
    /\ UNCHANGED <<standalone, bytes, fsys, links, ckptfile, pc, req, runs, mem, progress,
                   current_input, cache_key, result, invoked, atstart, deleted>>

Next ==
    \/ \E id \in Solo, request \in Requests : Submit(id, request)
    \/ \E id \in Solo : Resubmit(id)
    \/ \E id \in Solo : Start(id)
    \/ \E id \in Solo : Stage(id)
    \/ \E id \in Solo : Finish(id)
    \/ \E p \in OutPaths : ExternalDelete(p)
    \/ \E id \in Solo : Age(id)

Spec == Init /\ [][Next]_vars

\* ------------------------------------------------------- claims: vocabulary
\* The stages whose commands the run of id has executed so far.
InvokedStages(id) == {invoked[id][i].command.stage : i \in 1..Len(invoked[id])}

\* The run of id is a resubmission that loaded a checkpoint with completed
\* stages.
Resumes(id) == runs[id] > 1 /\ atstart[id].completed # {}

\* The completed stages of the loaded checkpoint whose file was gone.
StaleStages(id) == atstart[id].completed \ atstart[id].present

\* C1: a resubmitted run whose checkpoint lists completed stages, all of
\* whose output files are still there, executes the command of none of them.
C1_ValidStagesNotReinvoked ==
    \A id \in JobIds :
        (Resumes(id) /\ StaleStages(id) = {})
            => InvokedStages(id) \cap atstart[id].completed = {}

\* C2: a resubmitted run whose checkpoint lists a completed stage whose file
\* is gone executes no command of a stage before the first such stage, and
\* when it returns Complete it has executed that stage and every requested
\* stage after it.
FirstStale(id) ==
    CHOOSE i \in 1..Len(StageOrder) :
        /\ StageOrder[i] \in StaleStages(id)
        /\ \A k \in 1..(i - 1) : StageOrder[k] \notin StaleStages(id)

C2_ReinvokedFromStaleStage ==
    \A id \in JobIds :
        (Resumes(id) /\ StaleStages(id) # {} /\ pc[id] # "queued")
            => /\ \A s \in InvokedStages(id) : StageIndex(s) >= FirstStale(id)
               /\ (pc[id] = "done" /\ result[id].status = "Complete"
                   /\ ~result[id].cached)
                    => \A i \in FirstStale(id)..Len(StageOrder) :
                          Requested(req[id], StageOrder[i])
                            => StageOrder[i] \in InvokedStages(id)

\* C3: a file appears at the canonical output path of a job only in the step
\* that ends a run of the job with the Complete result.
C3_OutputOnlyOnSuccess ==
    [][\A id \in JobIds :
          (fsys[base_output(id)] = NoFile /\ fsys'[base_output(id)] # NoFile)
            => (pc[id] = "finish" /\ result'[id].status = "Complete")]_vars

\* ------------------------------------------------ the cache key on its own
\* Requests over two one-file uploads, in two insertion orders of the
\* top-level keys and of the ai_options keys.
KeyInputLists == {<<"a.png">>, <<"b.png">>}

KeyOptionDicts ==
    {<<<<"superres", "x2">>, <<"denoise", "true">>>>,
     <<<<"denoise", "true">>, <<"superres", "x2">>>>,
     <<<<"superres", "x2">>>>}

KeyRequests ==
    {[keys |-> k, input |-> i, fps |-> "24", ai_options |-> o] :
        k \in {<<"input", "fps", "ai_options">>, <<"ai_options", "fps", "input">>},
        i \in KeyInputLists, o \in KeyOptionDicts}

KeyUploadPaths == {<<i[1]>> : i \in KeyInputLists}

KeyListPaths == {StrOfList(i) : i \in KeyInputLists}

InitKey ==
    /\ bytes \in {b \in [KeyUploadPaths \cup KeyListPaths -> {"absent", "A", "B"}] :
                    \A p \in KeyUploadPaths : b[p] # "absent"}
    /\ req \in [JobIds -> KeyRequests]
    /\ fsys = [p \in OutPaths |-> NoFile]
    /\ links = {}
    /\ tmpdir = [id \in JobIds |-> "absent"]
    /\ ckptfile = [id \in JobIds |-> NoCheckpointFile]
    /\ pc = [id \in JobIds |-> "queued"]
    /\ runs = [id \in JobIds |-> 1]
    /\ mem = [id \in JobIds |-> EmptyState]
    /\ progress = [id \in JobIds |-> [current_step |-> 0, total_steps |-> 0]]
    /\ current_input = [id \in JobIds |-> NoPath]
    /\ cache_key = [id \in JobIds |-> NoPath]
    /\ result = [id \in JobIds |-> NoResult]
    /\ invoked = [id \in JobIds |-> <<>>]
    /\ atstart = [id \in JobIds |-> NoSnapshot]
    /\ deleted = <<>>
    /\ StandaloneIdle

\* The cache key image_to_video computes for the request of id.
ComputeKey(id) ==
    /\ pc[id] = "queued"
    /\ ~KeyRaises(bytes, StrOfList(req[id].input))
    /\ cache_key' = [cache_key EXCEPT ![id] =
            get_cache_key(bytes, StrOfList(req[id].input), "image_to_video",
                          req[id])]
    /\ pc' = [pc EXCEPT ![id] = "keyed"]
    /\ UNCHANGED <<standalone, bytes, fsys, links, tmpdir, ckptfile, req, runs, mem,
                   progress, current_input, result, invoked, atstart, deleted>>

\* open(input_path) raises in get_cache_key: the run ends in the handler.
KeyFails(id) ==
    /\ pc[id] = "queued"
    /\ KeyRaises(bytes, StrOfList(req[id].input))
    /\ pc' = [pc EXCEPT ![id] = "done"]
    /\ result' = [result EXCEPT ![id] = ErrorResult(SaveMessage)]
    /\ UNCHANGED <<standalone, bytes, fsys, links, tmpdir, ckptfile, req, runs, mem,
                   progress, current_input, cache_key, invoked, atstart, deleted>>

NextKey ==
    \/ \E id \in JobIds : ComputeKey(id)
    \/ \E id \in JobIds : KeyFails(id)

SpecKey == InitKey /\ [][NextKey]_vars

\* The uploads of two requests hold the same bytes, file by file.
SameContent(r1, r2) ==
    /\ Len(r1.input) = Len(r2.input)
    /\ \A n \in 1..Len(r1.input) : bytes[<<r1.input[n]>>] = bytes[<<r2.input[n]>>]

\* Two requests carry the same parameters, whatever the order of their keys.
SameParameters(r1, r2) ==
    /\ r1.fps = r2.fps
    /\ DictKeys(r1.ai_options) = DictKeys(r2.ai_options)
    /\ \A k \in DictKeys(r1.ai_options) :
          DictGet(r1.ai_options, k) = DictGet(r2.ai_options, k)

\* C4: two jobs whose uploads hold the same content and whose parameters are
\* the same get the same cache key, whatever the uploads are named and
\* whatever the insertion order of the keys.
C4_SameContentSameKey ==
    \A id1, id2 \in JobIds :
        (/\ pc[id1] = "keyed" /\ pc[id2] = "keyed"
         /\ SameContent(req[id1], req[id2])
         /\ SameParameters(req[id1], req[id2]))
            => cache_key[id1] = cache_key[id2]

\* ------------------------------------------------- claims on the executor
\* C5: get_cached_result returns a path only while the artifact the entry
\* was registered for exists, and a run that finds the entry of its key
\* dangling is not answered from the cache.
C5_NoDanglingHit ==
    /\ \A l \in links :
          get_cached_result(fsys, links, l.key) # NoPath
            => fsys[l.target] # NoFile
    /\ \A id \in JobIds :
          (pc[id] \notin {"new", "queued"} /\ atstart[id].dangling)
            => ~result[id].cached

\* An entry was registered, its artifact was then deleted from outside, and
\* a run has looked the entry up since.
C5_Witness ==
    /\ \E l \in links : fsys[l.target] = NoFile /\ InSeq(l.target, deleted)
    /\ \E id \in JobIds : pc[id] = "image_to_video" /\ atstart[id].lost

\* The run of id ends in this step.
RunEnds(id) == pc[id] \notin {"new", "done"} /\ pc'[id] = "done"

\* After the step, the run of id has executed the command of every stage
\* its request asks for, and each exited with 0 and left its output.
RanEveryStage(id) ==
    /\ {invoked'[id][i].command.stage : i \in 1..Len(invoked'[id])}
         = {s \in Stages : Requested(req[id], s)}
    /\ \A i \in 1..Len(invoked'[id]) :
          invoked'[id][i].outcome = "ok" /\ invoked'[id][i].wrote

\* C6: a run that found the cache entry of its key dangling, the artifact
\* having been deleted from outside, and all of whose stages succeed returns
\* Complete, and the cache then maps the key to an artifact that exists.
C6_DanglingEntryIsMiss ==
    [][\A id \in JobIds :
          (/\ RunEnds(id) /\ RanEveryStage(id)
           /\ atstart[id].dangling /\ atstart[id].lost)
            => /\ result'[id].status = "Complete"
               /\ get_cached_result(fsys', links', cache_key'[id]) # NoPath]_vars

\* C7: a run with no optional stage whose base stage succeeds returns
\* Complete with the canonical output path and no transcription, and the
\* cache then maps its key to the artifact at that path (when nobody has
\* deleted the artifact meanwhile).
C7_BaseOnlyCompletes ==
    [][\A id \in JobIds :
          (/\ RunEnds(id) /\ total_steps(req[id]) = 1 /\ RanEveryStage(id)
           /\ fsys'[base_output(id)] # NoFile)
            => /\ result'[id].status = "Complete"
               /\ result'[id].output = base_output(id)
               /\ result'[id].transcription = NoPath
               /\ get_cached_result(fsys', links', cache_key'[id]) # NoPath
               /\ \E l \in links' : /\ l.key = cache_key'[id]
                                    /\ l.target = base_output(id)]_vars

\* C8: a run that follows a run of the same request that returned Complete,
\* and that starts while the artifact of that result exists, returns Complete
\* with cached = true and executes no command.
C8_ResubmitIsCached ==
    \A id \in JobIds :
        (/\ pc[id] \notin {"new", "queued"} /\ runs[id] > 1
         /\ atstart[id].previous.status = "Complete" /\ atstart[id].artifact)
            => /\ pc[id] = "done"
               /\ result[id].status = "Complete"
               /\ result[id].cached
               /\ invoked[id] = <<>>

C8_Witness ==
    \E id \in JobIds :
        /\ pc[id] = "done" /\ runs[id] > 1
        /\ atstart[id].previous.status = "Complete"
        /\ ~atstart[id].previous.cached
        /\ atstart[id].artifact
        /\ result[id].cached

\* The command the run of id executes in this step exits with a failure.
StageFails(id) ==
    /\ pc[id] \in Stages
    /\ Len(invoked'[id]) = Len(invoked[id]) + 1
    /\ invoked'[id][Len(invoked'[id])].outcome = "fail"

\* C9: when the command of a stage fails, the run ends there with an Error
\* result whose error is the message of that stage and of no other.
C9_FailureNamesStage ==
    [][\A id \in JobIds :
          StageFails(id)
            => /\ pc'[id] = "done"
               /\ result'[id].status = "Error"
               /\ result'[id].error = ErrorMessage(pc[id])
               /\ \A s \in Stages \ {pc[id]} :
                     ErrorMessage(s) # result'[id].error]_vars

\* C10: a run that ends in a failure leaves the entries of the stages that
\* were completed before: the step that records the failure of a command
\* changes none of completed_steps, intermediate_files and parameters, and
\* the checkpoint file still lists every stage it listed when the run began.
C10_FailureKeepsCompleted ==
    [][\A id \in JobIds :
          (RunEnds(id) /\ result'[id].status # "Complete")
            => /\ (pc[id] \in Stages
                   /\ invoked'[id][Len(invoked'[id])].outcome # "ok")
                    => /\ mem'[id].completed_steps = mem[id].completed_steps
                       /\ mem'[id].intermediate_files = mem[id].intermediate_files
                       /\ mem'[id].parameters = mem[id].parameters
               /\ \A s \in atstart'[id].completed :
                     /\ ckptfile'[id].exists
                     /\ InSeq(s, ckptfile'[id].state.completed_steps)]_vars

\* The command the run of id executes in this step exceeds TASK_TIMEOUT.
StageTimesOut(id) ==
    /\ pc[id] \in Stages
    /\ Len(invoked'[id]) = Len(invoked[id]) + 1
    /\ invoked'[id][Len(invoked'[id])].outcome = "timeout"

\* C11: when the command of a stage times out, the run ends there (no retry,
\* no later stage), the checkpoint counts one more failure of that stage and
\* holds the timeout as the reason of the failure of that stage, and the run
\* returns an Error result that identifies the stage.
C11_TimeoutIsSurfaced ==
    [][\A id \in JobIds :
          StageTimesOut(id)
            => /\ pc'[id] = "done"
               /\ Len(invoked'[id]) = Len(invoked[id]) + 1
               /\ mem'[id].error_count[pc[id]] = mem[id].error_count[pc[id]] + 1
               /\ mem'[id].last_error.step = pc[id]
               /\ mem'[id].last_error.error = "Command timeout"
               /\ result'[id].status = "Error"
               /\ result'[id].error \in {pc[id], ErrorMessage(pc[id])}]_vars

\* ------------------------------------------------------ claims on progress
\* progress = (self.current_step / self.total_steps) * 100, as a fraction.
progress_percent(t) ==
    [num |-> t.current_step * 100, den |-> t.total_steps]

PercentLeq(p, q) == p.num * q.den <= q.num * p.den

AtHundred(p) == p.den > 0 /\ p.num = 100 * p.den

\* The last stage the request asks for.
FinalStage(request) ==
    CHOOSE s \in Stages :
        Requested(request, s) /\ StageAfter(request, StageIndex(s)) = "finish"

\* C12: within a run the progress percent never decreases, and it is 100
\* only when the checkpoint lists the final stage of the request as
\* completed.
C12_ProgressMonotoneAndHonest ==
    [][\A id \in JobIds :
          (pc[id] \in Stages /\ progress'[id] # progress[id])
            => /\ PercentLeq(progress_percent(progress[id]),
                             progress_percent(progress'[id]))
               /\ AtHundred(progress_percent(progress'[id]))
                    => InSeq(FinalStage(req[id]),
                             mem'[id].completed_steps)]_vars

\* ------------------------------------------------- claims on the stage order
\* C14: the commands of a run are executed in the fixed order of the stages:
\* the base stage first, each optional stage at most once and only when its
\* option is truthy, and never a stage after one that follows it in the order.
C14_FixedStageOrder ==
    \A id \in JobIds :
        LET inv == invoked[id]
        IN /\ inv # <<>> => inv[1].command.stage = "image_to_video"
           /\ pc[id] \in (Stages \ {"image_to_video"}) \cup {"finish"}
                => inv # <<>>
           /\ \A i, j \in 1..Len(inv) :
                 i < j => StageIndex(inv[i].command.stage)
                            < StageIndex(inv[j].command.stage)
           /\ \A i \in 1..Len(inv) :
                 \/ inv[i].command.stage = "image_to_video"
                 \/ Truthy(DictGet(req[id].ai_options,
                                   OptionOf(inv[i].command.stage)))

\* A run that skipped an option given as false and executed three commands
\* has returned Complete.
C14_Witness ==
    \E id \in JobIds :
        /\ pc[id] = "done" /\ result[id].status = "Complete"
        /\ Len(invoked[id]) = 3
        /\ DictGet(req[id].ai_options, "denoise") = "false"
        /\ "denoise" \notin InvokedStages(id)

\* The output of the last command before the i-th of the run of id that is
\* not the speech-to-text command (the base command is the first).
ChainInput(id, i) ==
    LET inv == invoked[id]
        fw == {k \in 1..(i - 1) : inv[k].command.stage # "speech_to_text"}
        last == CHOOSE k \in fw : \A m \in fw : m <= k
    IN inv[last].command.output

\* C15: the input of each command after the base command is the output of
\* the most recent forward-chain stage; the transcription is the input of no
\* command and never lands at the canonical output path.
C15_ForwardChain ==
    \A id \in JobIds :
        LET inv == invoked[id]
        IN /\ \A i \in 2..Len(inv) : inv[i].command.input = ChainInput(id, i)
           /\ \A i \in 1..Len(inv) :
                 inv[i].command.input # <<OUTPUT_DIR, "transcription.txt">>
           /\ pc[id] = "finish"
                => current_input[id] # <<OUTPUT_DIR, "transcription.txt">>
           /\ fsys[base_output(id)].stage # "speech_to_text"

\* A run has executed the speech-to-text command and then the frame-rate
\* boost command, and has returned Complete.
C15_Witness ==
    \E id \in JobIds :
        /\ pc[id] = "done" /\ result[id].status = "Complete"
        /\ \E i \in 1..Len(invoked[id]) :
              /\ invoked[id][i].command.stage = "speech_to_text"
              /\ i < Len(invoked[id])
              /\ invoked[id][i + 1].command.stage = "framerate_boost"
        /\ fsys[base_output(id)].stage = "framerate_boost"

\* C18: while a run goes on, the checkpoint holds, for every stage whose
\* command has succeeded, its name in completed_steps, its output path in
\* intermediate_files and its command in parameters.
C18_SuccessIsRecorded ==
    \A id \in JobIds :
        pc[id] \in Stages \cup {"finish"}
            => \A i \in 1..Len(invoked[id]) :
                  LET c == invoked[id][i].command
                  IN /\ InSeq(c.stage, mem[id].completed_steps)
                     /\ mem[id].parameters[c.stage] = c
                     /\ mem[id].intermediate_files[c.stage] = c.output

\* ------------------------------------------------ two jobs on two workers
\* The requests of the jobs that run side by side.
PoolRequests ==
    {[keys |-> <<"input", "fps", "ai_options">>, input |-> i, fps |-> "24",
      ai_options |-> o] :
        i \in InputLists, o \in {<<>>, <<<<"superres", "x2">>>>}}

NextPool ==
    \/ \E id \in JobIds, request \in PoolRequests : Submit(id, request)
    \/ \E id \in JobIds : Start(id)
    \/ \E id \in JobIds : Stage(id)
    \/ \E id \in JobIds : Finish(id)
    \/ \E p \in OutPaths : ExternalDelete(p)

SpecPool == Init /\ [][NextPool]_vars

\* The run of id has stored the cache entry of its key.
Stored(id) ==
    /\ pc[id] = "done" /\ result[id].status = "Complete" /\ ~result[id].cached

\* C16: of the jobs that share a cache key at most one stores the entry of
\* the key, and an entry that was stored is never replaced or removed.
C16_AtMostOneStore ==
    [][/\ \A l \in links : l \in links'
       /\ \A l1, l2 \in links' : l1.path = l2.path => l1 = l2
       /\ \A id1, id2 \in JobIds :
             (id1 # id2 /\ cache_key'[id1] = cache_key'[id2])
                => ~(Stored(id1)' /\ Stored(id2)')]_vars

\* Two jobs with the same key have both run all their stages after a miss;
\* one stored the entry and the other was refused by os.symlink.
C16_Witness ==
    \E id1, id2 \in JobIds :
        /\ id1 # id2 /\ cache_key[id1] = cache_key[id2]
        /\ Stored(id1)
        /\ pc[id2] = "done" /\ result[id2].error = "FileExistsError"
        /\ \E l \in links : l.key = cache_key[id1] /\ l.target = base_output(id1)

\* C17: no command of a job writes or reads a path that a command of another
\* job writes.
C17_PathsQualifiedByJob ==
    \A id1, id2 \in JobIds :
        id1 # id2
            => \A i \in 1..Len(invoked[id1]), j \in 1..Len(invoked[id2]) :
                  /\ invoked[id1][i].command.output
                        # invoked[id2][j].command.output
                  /\ invoked[id1][i].command.input
                        # invoked[id2][j].command.output

\* ------------------------------------------------------- get_task_priority
\* class Priority(Enum)
LOW == 1
MEDIUM == 2
HIGH == 3

\* The sizes get_task_priority compares file_size with, in bytes.
LARGE_FILE == 1000000000
SMALL_FILE == 10000000

\* Priority(value): the member with that value; ValueError, here 0, when
\* there is none.
Priority(value) == IF value \in {LOW, MEDIUM, HIGH} THEN value ELSE 0

MaxOf(a, b) == IF a >= b THEN a ELSE b

get_task_priority_no_floor(size, options) ==
    LET by_size == IF size > LARGE_FILE THEN LOW
                   ELSE IF size < SMALL_FILE THEN HIGH
                   ELSE MEDIUM
    IN IF Len(options) > 2 THEN Priority(by_size - 1) ELSE by_size

\* get_task_priority(file_size, processing_options): priority.value
get_task_priority(size, options) ==
    LET by_size == IF size > LARGE_FILE THEN LOW
                   ELSE IF size < SMALL_FILE THEN HIGH
                   ELSE MEDIUM
    IN IF Len(options) > 2 THEN Priority(MaxOf(1, by_size - 1)) ELSE by_size

\* File sizes on both sides of the two thresholds, 5 MB and 2 GB among them.
FileSizes ==
    {0, 5000000, SMALL_FILE - 1, SMALL_FILE, SMALL_FILE + 1, 500000000,
     LARGE_FILE - 1, LARGE_FILE, LARGE_FILE + 1, 2000000000}

\* Maps of zero to four options, in the order the stages take them.
OptionMaps ==
    {<<>>,
     <<<<"superres", "x2">>>>,
     <<<<"superres", "x2">>, <<"denoise", "true">>>>,
     <<<<"superres", "x2">>, <<"denoise", "true">>, <<"speech2text", "true">>>>,
     <<<<"denoise", "true">>, <<"speech2text", "true">>,
       <<"framerateboost", "60">>>>,
     <<<<"superres", "x2">>, <<"denoise", "true">>, <<"speech2text", "true">>,
       <<"framerateboost", "60">>>>}

\* Nothing has been submitted to the engine.
EngineIdle ==
    /\ bytes = [p \in UploadPaths \cup ListPaths |-> "A"]
    /\ fsys = [p \in OutPaths |-> NoFile]
    /\ links = {}
    /\ tmpdir = [id \in JobIds |-> "absent"]
    /\ ckptfile = [id \in JobIds |-> NoCheckpointFile]
    /\ pc = [id \in JobIds |-> "new"]
    /\ req = [id \in JobIds |-> NoRequest]
    /\ runs = [id \in JobIds |-> 0]
    /\ mem = [id \in JobIds |-> EmptyState]
    /\ progress = [id \in JobIds |-> [current_step |-> 0, total_steps |-> 0]]
    /\ current_input = [id \in JobIds |-> NoPath]
    /\ cache_key = [id \in JobIds |-> NoPath]
    /\ result = [id \in JobIds |-> NoResult]
    /\ invoked = [id \in JobIds |-> <<>>]
    /\ atstart = [id \in JobIds |-> NoSnapshot]
    /\ deleted = <<>>

InitPriority ==
    /\ EngineIdle
    /\ calls = [id \in JobIds |-> <<>>]
    /\ file_size \in FileSizes
    /\ processing_options \in OptionMaps
    /\ priority = -1
    /\ monitor = NewMonitor
    /\ tracker = NoTracker

\* The admission layer classifies the job.
Classify ==
    /\ priority = -1
    /\ priority' = get_task_priority(file_size, processing_options)
    /\ UNCHANGED <<engine, calls, file_size, processing_options, monitor,
                   tracker>>

NextPriority == Classify

SpecPriority == InitPriority /\ [][NextPriority]_vars

\* The default policy, on class names.
Demoted(class) ==
    CASE class = "High" -> "Medium"
      [] class = "Medium" -> "Low"
      [] OTHER -> "Low"

PolicyClass(size, count) ==
    LET by_size == IF size > LARGE_FILE THEN "Low"
                   ELSE IF size < SMALL_FILE THEN "High"
                   ELSE "Medium"
    IN IF count > 2 THEN Demoted(by_size) ELSE by_size

ClassName(value) ==
    CASE value = LOW -> "Low"
      [] value = MEDIUM -> "Medium"
      [] value = HIGH -> "High"
      [] OTHER -> "none"

MAX_RETRIES == 3

\* The steps the caller of the checkpoint object reports.
CalledSteps == {"image_to_video", "super_resolution"}

\* A call of the log: the method, its step and its output_file, what it
\* returned and whether a deletion failed in it.
Call(op, step_name, output_file) ==
    [op |-> op, step |-> step_name, output_file |-> output_file,
     ret |-> "None", failed |-> FALSE]

\* ProcessingCheckpoint(task_id, output_dir), output_dir being there.
InitCheckpoint ==
    /\ bytes = [p \in UploadPaths \cup ListPaths |-> "A"]
    /\ fsys = [p \in OutPaths |-> NoFile]
    /\ links = {}
    /\ tmpdir = [id \in JobIds |-> IF id \in Solo THEN "fresh" ELSE "absent"]
    /\ ckptfile = [id \in JobIds |-> NoCheckpointFile]
    /\ pc = [id \in JobIds |-> "new"]
    /\ req = [id \in JobIds |-> NoRequest]
    /\ runs = [id \in JobIds |-> 0]
    /\ mem = [id \in JobIds |-> load_checkpoint(NoCheckpointFile)]
    /\ progress = [id \in JobIds |-> [current_step |-> 0, total_steps |-> 0]]
    /\ current_input = [id \in JobIds |-> NoPath]
    /\ cache_key = [id \in JobIds |-> NoPath]
    /\ result = [id \in JobIds |-> NoResult]
    /\ invoked = [id \in JobIds |-> <<>>]
    /\ atstart = [id \in JobIds |-> NoSnapshot]
    /\ deleted = <<>>
    /\ StandaloneIdle

\* checkpoint.step_completed(step_name, output_file), save_checkpoint
\* included.
CallStepCompleted(id, step_name, output_file) ==
    /\ Len(calls[id]) < MaxCalls
    /\ LET st == step_completed(mem[id], step_name, output_file, NoCommand)
       IN /\ mem' = [mem EXCEPT ![id] = st]
          /\ ckptfile' = [ckptfile EXCEPT ![id] = SavedFile(st)]
    /\ calls' = [calls EXCEPT ![id] =
                    Append(@, Call("step_completed", step_name, output_file))]
    /\ UNCHANGED <<bytes, fsys, links, tmpdir, pc, req, runs, progress,
                   current_input, cache_key, result, invoked, atstart, deleted,
                   file_size, processing_options, priority, monitor,
                   tracker>>

\* checkpoint.step_failed(step_name, error), save_checkpoint included.
CallStepFailed(id, step_name) ==
    /\ Len(calls[id]) < MaxCalls
    /\ LET st == step_failed(mem[id], step_name, ExitMessage)
       IN /\ mem' = [mem EXCEPT ![id] = st]
          /\ ckptfile' = [ckptfile EXCEPT ![id] = SavedFile(st)]
    /\ calls' = [calls EXCEPT ![id] =
                    Append(@, Call("step_failed", step_name, NoPath))]
    /\ UNCHANGED <<bytes, fsys, links, tmpdir, pc, req, runs, progress,
                   current_input, cache_key, result, invoked, atstart, deleted,
                   file_size, processing_options, priority, monitor,
                   tracker>>

\* A resubmission builds a new checkpoint object for the task id:
\* __init__ calls load_checkpoint.
Reload(id) ==
    /\ Len(calls[id]) < MaxCalls
    /\ mem' = [mem EXCEPT ![id] = load_checkpoint(ckptfile[id])]
    /\ calls' = [calls EXCEPT ![id] = Append(@, Call("load", "", NoPath))]
    /\ UNCHANGED <<bytes, fsys, links, tmpdir, ckptfile, pc, req, runs,
                   progress, current_input, cache_key, result, invoked, atstart,
                   deleted, file_size, processing_options, priority, monitor,
                   tracker>>

\* The program of stage s leaves its output, once.
WriteFile(id, s) ==
    /\ fsys[OutputOf(id, s)] = NoFile
    /\ ~InSeq(OutputOf(id, s), deleted)
    /\ fsys' = [fsys EXCEPT ![OutputOf(id, s)] =
                  [by |-> id, stage |-> s, full |-> TRUE]]
    /\ UNCHANGED <<standalone, bytes, links, tmpdir, ckptfile, pc, req, runs,
                   mem, progress, current_input, cache_key, result, invoked,
                   atstart, deleted>>

NextCheckpoint ==
    \/ \E id \in Solo, s \in CalledSteps :
          \E f \in {NoPath, OutputOf(id, s)} :
              CallStepCompleted(id, s, f)
    \/ \E id \in Solo, s \in CalledSteps : CallStepFailed(id, s)
    \/ \E id \in Solo : Reload(id)
    \/ \E id \in Solo, s \in CalledSteps : WriteFile(id, s)
    \/ \E p \in OutPaths : ExternalDelete(p)

SpecCheckpoint == InitCheckpoint /\ [][NextCheckpoint]_vars

\* step_completed was called for the step.
WasCompleted(id, s) ==
    \E i \in 1..Len(calls[id]) :
        calls[id][i].op = "step_completed" /\ calls[id][i].step = s

\* The file given by the last step_completed call of the step that gave one.
RecordedFile(id, s) ==
    LET given == {i \in 1..Len(calls[id]) :
                    /\ calls[id][i].op = "step_completed"
                    /\ calls[id][i].step = s
                    /\ calls[id][i].output_file # NoPath}
    IN IF given = {} THEN NoPath
       ELSE calls[id][CHOOSE i \in given : \A k \in given : k <= i].output_file

\* C19: can_resume_from(step) is true exactly when the step was reported
\* completed, a file was recorded for it and that file exists now.
C19_ResumeIffFileExists ==
    \A id \in JobIds, s \in StepNames :
        can_resume_from(mem[id], fsys, links, s)
            <=> /\ WasCompleted(id, s)
                /\ RecordedFile(id, s) # NoPath
                /\ fsys[RecordedFile(id, s)] # NoFile

\* One step can be resumed from; another was completed with a file that has
\* been deleted since, and a third was completed with no file.
C19_Witness ==
    \E id \in JobIds, s1, s2 \in CalledSteps :
        /\ can_resume_from(mem[id], fsys, links, s1)
        /\ WasCompleted(id, s2)
        /\ InSeq(RecordedFile(id, s2), deleted)
        /\ ~can_resume_from(mem[id], fsys, links, s2)

\* The number of step_failed calls made for the step.
FailuresOf(id, s) ==
    Cardinality({i \in 1..Len(calls[id]) :
                    calls[id][i].op = "step_failed" /\ calls[id][i].step = s})

\* The step of the log is a step_failed call for step s.
FailedCall(id, s) ==
    /\ Len(calls'[id]) = Len(calls[id]) + 1
    /\ calls'[id][Len(calls'[id])] = Call("step_failed", s, NoPath)

\* C20: should_retry(step, max) is true exactly when fewer than max
\* step_failed calls were made for the step, reloads included; a step_failed
\* call adds one to the count of its step and leaves the other counts.
C20_RetryCountsFailures ==
    [][\A id \in JobIds :
          /\ \A s \in StepNames, m \in 0..(MAX_RETRIES + 1) :
                should_retry(mem'[id], s, m) <=> FailuresOf(id, s)' < m
          /\ \A s \in StepNames :
                FailedCall(id, s)
                    => /\ mem'[id].error_count[s] = mem[id].error_count[s] + 1
                       /\ \A o \in StepNames \ {s} :
                             mem'[id].error_count[o]
                                = mem[id].error_count[o]]_vars

\* A step has failed MAX_RETRIES times, with a reload before the last
\* failure, and is not to be retried.
C20_Witness ==
    \E id \in JobIds, s \in CalledSteps :
        /\ FailuresOf(id, s) = MAX_RETRIES
        /\ \E i \in 1..Len(calls[id]) : calls[id][i].op = "load"
        /\ calls[id][Len(calls[id])].op = "step_failed"
        /\ ~should_retry(mem[id], s, MAX_RETRIES)
        /\ should_retry(mem[id], s, MAX_RETRIES + 1)

\* The step of the log is a step_completed or a step_failed call.
MutatingCall(id) ==
    /\ Len(calls'[id]) = Len(calls[id]) + 1
    /\ calls'[id][Len(calls'[id])].op \in {"step_completed", "step_failed"}

\* C21: when step_completed or step_failed returns, a load of the
\* checkpoint file gives the state the object holds, the completed step
\* included.
C21_PersistedOnReturn ==
    [][\A id \in JobIds :
          MutatingCall(id)
            => LET last == calls'[id][Len(calls'[id])]
                   loaded == load_checkpoint(ckptfile'[id])
               IN /\ ckptfile'[id].exists
                  /\ loaded = mem'[id]
                  /\ last.op = "step_completed"
                       => InSeq(last.step, loaded.completed_steps)
                  /\ last.op = "step_failed"
                       => loaded.last_error.step = last.step]_vars

\* A step was reported completed and a new object loaded the record: it
\* lists the step.
C21_Witness ==
    \E id \in JobIds :
        /\ Len(calls[id]) >= 2
        /\ calls[id][Len(calls[id])].op = "load"
        /\ calls[id][Len(calls[id]) - 1].op = "step_completed"
        /\ InSeq(calls[id][Len(calls[id]) - 1].step, mem[id].completed_steps)

\* C22: a run that ends with the Complete result, not from the cache, all
\* of whose commands left their outputs and none of whose outputs was deleted
\* from outside, leaves the artifact at the canonical path, the cache entry of its key pointing to it, no checkpoint file, and
\* none of the outputs of its forward-chain stages at their own paths.
C22_CompleteLeavesOnlyArtifact ==
    [][\A id \in JobIds :
          (/\ RunEnds(id) /\ RanEveryStage(id)
           /\ result'[id].status = "Complete" /\ ~result'[id].cached
           /\ \A i \in 1..Len(invoked'[id]) :
                 ~InSeq(invoked'[id][i].command.output, deleted'))
            => /\ fsys'[base_output(id)] # NoFile
               /\ \E l \in links' : /\ l.key = cache_key'[id]
                                    /\ l.target = base_output(id)
               /\ ~ckptfile'[id].exists
               /\ \A i \in 1..Len(invoked'[id]) :
                     LET c == invoked'[id][i].command
                     IN (c.stage \notin {"image_to_video", "speech_to_text"})
                          => fsys'[c.output] = NoFile]_vars

\* C24: a run that has ended has returned a result with status Complete or
\* Error.
C24_AlwaysStructuredResult ==
    \A id \in JobIds :
        pc[id] = "done" => result[id].status \in {"Complete", "Error"}

\* The command the run of id executes in this step exits with 0 and leaves
\* no file at its output path.
StageLeavesNothing(id) ==
    /\ pc[id] \in Stages
    /\ Len(invoked'[id]) = Len(invoked[id]) + 1
    /\ invoked'[id][Len(invoked'[id])].outcome = "ok"
    /\ fsys'[OutputOf(id, pc[id])] = NoFile

\* C25: a command that exits with 0 and leaves no file at its output path
\* is a failure of its stage: the stage is not added to completed_steps, its
\* error count grows by one, and the run ends with an Error result.
C25_MissingOutputIsFailure ==
    [][\A id \in JobIds :
          StageLeavesNothing(id)
            => /\ mem'[id].completed_steps = mem[id].completed_steps
               /\ mem'[id].error_count[pc[id]] = mem[id].error_count[pc[id]] + 1
               /\ pc'[id] = "done"
               /\ result'[id].status = "Error"]_vars

\* ----------------------------------------------- checkpoint.cleanup on its own
\* The checkpoint file, as something unlink can be refused on.
CheckpointPath == <<"checkpoint">>

\* The files of intermediate_files that exist.
ListedFiles(st, fs) ==
    {p \in DOMAIN fs : fs[p] # NoFile
                       /\ \E s \in StepNames : st.intermediate_files[s] = p}

\* ProcessingCheckpoint.cleanup when unlink raises on the paths of denied:
\* the loop stops at the first of them, having unlinked the files of done,
\* the checkpoint file is unlinked after the loop, and the handler of
\* Exception logs what was raised. The value is what cleanup leaves and
\* returns.
cleanup_call(st, fs, file, denied, done) ==
    IF ListedFiles(st, fs) \cap denied # {}
    THEN [fs |-> [p \in DOMAIN fs |-> IF p \in done THEN NoFile ELSE fs[p]],
          file |-> file, ret |-> "None", failed |-> TRUE]
    ELSE IF file.exists /\ CheckpointPath \in denied
    THEN [fs |-> cleanup(st, fs), file |-> file, ret |-> "None",
          failed |-> TRUE]
    ELSE [fs |-> cleanup(st, fs), file |-> NoCheckpointFile, ret |-> "None",
          failed |-> FALSE]

\* checkpoint.cleanup()
CallCleanup(id) ==
    /\ Len(calls[id]) < MaxCalls
    /\ \E denied \in SUBSET (ListedFiles(mem[id], fsys) \cup {CheckpointPath}) :
        \E done \in SUBSET (ListedFiles(mem[id], fsys) \ denied) :
          LET r == cleanup_call(mem[id], fsys, ckptfile[id], denied, done)
          IN /\ fsys' = r.fs
             /\ ckptfile' = [ckptfile EXCEPT ![id] = r.file]
             /\ calls' = [calls EXCEPT ![id] =
                   Append(@, [Call("cleanup", "", NoPath) EXCEPT
                                 !.ret = r.ret, !.failed = r.failed])]
    /\ UNCHANGED <<bytes, links, tmpdir, pc, req, runs, mem, progress,
                   current_input, cache_key, result, invoked, atstart, deleted,
                   file_size, processing_options, priority, monitor,
                   tracker>>

NextCleanup ==
    \/ \E id \in Solo, s \in CalledSteps :
          \E f \in {NoPath, OutputOf(id, s)} : CallStepCompleted(id, s, f)
    \/ \E id \in Solo, s \in CalledSteps : WriteFile(id, s)
    \/ \E id \in Solo : CallCleanup(id)

SpecCleanup == InitCheckpoint /\ [][NextCleanup]_vars

\* The step of the log is a cleanup call.
CleanupCall(id) ==
    /\ Len(calls'[id]) = Len(calls[id]) + 1
    /\ calls'[id][Len(calls'[id])].op = "cleanup"

\* C23: cleanup returns to its caller whatever deletion fails, and when none
\* fails neither the checkpoint file nor a file of intermediate_files exists
\* afterwards.
C23_CleanupIsBestEffort ==
    [][\A id \in JobIds :
          CleanupCall(id)
            => LET last == calls'[id][Len(calls'[id])]
               IN /\ last.ret = "None"
                  /\ ~last.failed
                       => /\ ~ckptfile'[id].exists
                          /\ \A s \in StepNames :
                                mem[id].intermediate_files[s] # NoPath
                                  => fsys'[mem[id].intermediate_files[s]]
                                        = NoFile]_vars

\* cleanup has returned although the deletion of a listed file was refused:
\* that file and the checkpoint file are still there.
C23_Witness ==
    \E id \in JobIds :
        /\ calls[id] # <<>>
        /\ calls[id][Len(calls[id])].op = "cleanup"
        /\ calls[id][Len(calls[id])].failed
        /\ calls[id][Len(calls[id])].ret = "None"
        /\ ckptfile[id].exists
        /\ ListedFiles(mem[id], fsys) # {}

\* ----------------------------------------------- uploads kept under TEMP_DIR
\* Requests whose upload lies in TEMP_DIR or elsewhere.
UploadInputLists == {<<"a.png">>, <<"/app/temp/c.png">>}

UploadRequests ==
    {[keys |-> <<"input", "fps", "ai_options">>, input |-> i, fps |-> "24",
      ai_options |-> o] : i \in UploadInputLists, o \in OptionDicts}

\* The uploads that are items of TEMP_DIR.
TempItems == {TempItemOf(i[1]) : i \in UploadInputLists} \ {""}

InitUploads ==
    /\ bytes \in [{<<i[1]>> : i \in UploadInputLists}
                    \cup {StrOfList(i) : i \in UploadInputLists}
                  -> {"A"}]
    /\ fsys = [p \in OutPaths |-> NoFile]
    /\ links = {}
    /\ tmpdir = [k \in JobIds \cup TempItems |->
                    IF k \in TempItems THEN "fresh" ELSE "absent"]
    /\ ckptfile = [id \in JobIds |-> NoCheckpointFile]
    /\ pc = [id \in JobIds |-> "new"]
    /\ req = [id \in JobIds |-> NoRequest]
    /\ runs = [id \in JobIds |-> 0]
    /\ mem = [id \in JobIds |-> EmptyState]
    /\ progress = [id \in JobIds |-> [current_step |-> 0, total_steps |-> 0]]
    /\ current_input = [id \in JobIds |-> NoPath]
    /\ cache_key = [id \in JobIds |-> NoPath]
    /\ result = [id \in JobIds |-> NoResult]
    /\ invoked = [id \in JobIds |-> <<>>]
    /\ atstart = [id \in JobIds |-> NoSnapshot]
    /\ deleted = <<>>
    /\ StandaloneIdle

NextUploads ==
    \/ \E id \in Solo, request \in UploadRequests : Submit(id, request)
    \/ \E id \in Solo : Start(id)
    \/ \E id \in Solo : Stage(id)
    \/ \E id \in Solo : Finish(id)
    \/ \E k \in TempItems : Age(k)

SpecUploads == InitUploads /\ [][NextUploads]_vars

\* C30: no step of a run changes, moves or deletes a file the request of
\* the job gives as input.
C30_InputsUntouched ==
    [][\A id \in JobIds :
          \A n \in 1..Len(req[id].input) :
              bytes'[<<req[id].input[n]>>] = bytes[<<req[id].input[n]>>]]_vars

\* ------------------------------------------------ update_history on its own
\* monitor.update_history(stats), the clock giving the arrival number.
CallUpdateHistory ==
    /\ monitor.samples < MaxSamples
    /\ LET now == monitor.samples + 1
       IN monitor' = [monitor EXCEPT
              !.history = update_history(@, collect_stats(QuietProbe, now), now),
              !.samples = now]
    /\ UNCHANGED <<engine, calls, file_size, processing_options, priority,
                   tracker>>

InitHistory == EngineIdle /\ StandaloneIdle

NextHistory == CallUpdateHistory

SpecHistory == InitHistory /\ [][NextHistory]_vars

MinOf(a, b) == IF a <= b THEN a ELSE b

\* C26: the history holds the most recent samples, at most max_history of
\* them, in the order they arrived: the i-th entry is the sample that
\* arrived i-th among the last Len(history).
C26_HistoryIsRollingWindow ==
    /\ Len(monitor.history) = MinOf(monitor.samples, max_history)
    /\ \A i \in 1..Len(monitor.history) :
          /\ monitor.history[i].timestamp
                = monitor.samples - Len(monitor.history) + i
          /\ monitor.history[i].stats["timestamp"]
                = monitor.history[i].timestamp

\* More samples have arrived than the history holds: the oldest are gone.
C26_Witness ==
    /\ monitor.samples = max_history + 2
    /\ Len(monitor.history) = max_history
    /\ monitor.history[1].timestamp = 3
    /\ monitor.history[max_history].timestamp = max_history + 2

\* ------------------------------------------------------- the monitor thread
\* What the monitor reads in the runs of the model: cpu and memory at or
\* over the threshold, no GPU or one of two, no disk reading or one of two.
Probes ==
    {[cpu |-> cm[1], mem |-> cm[2],
      gpu_available |-> g[1], gpu_util |-> g[2], gpu_used |-> g[3],
      gpu_total |-> 100,
      disk_ok |-> d[1], disk_percent |-> d[2]] :
        cm \in {<<90, 50>>, <<95, 95>>},
        g \in {<<FALSE, 0, 0>>, <<TRUE, 95, 50>>, <<TRUE, 50, 95>>},
        d \in {<<FALSE, 0>>, <<TRUE, 50>>, <<TRUE, 95>>}}

\* The test of the loop of run.
LoopTest ==
    /\ monitor.pc = "check"
    /\ IF LoopContinues(monitor)
       THEN /\ monitor.samples < MaxTicks
            /\ monitor' = [monitor EXCEPT !.pc = "body"]
       ELSE monitor' = [monitor EXCEPT !.pc = "ended"]
    /\ UNCHANGED <<engine, calls, file_size, processing_options, priority,
                   tracker>>

\* A monitor that is not advisory: a sample with a warning ends the stage
\* that is running.
Sample_aborts(probe) ==
    /\ monitor.pc = "body"
    /\ LET now == monitor.samples + 1
           stats == collect_stats(probe, now)
           warnings == check_thresholds(stats)
           Hit(id) == warnings # <<>> /\ pc[id] \in Stages
       IN /\ monitor' = [monitor EXCEPT
                 !.history = update_history(@, stats, now),
                 !.warnings = warnings,
                 !.samples = now,
                 !.probe = probe,
                 !.pc = "sleep"]
          /\ pc' = [id \in JobIds |-> IF Hit(id) THEN "done" ELSE pc[id]]
          /\ result' = [id \in JobIds |->
                           IF Hit(id) THEN ErrorResult("resources")
                           ELSE result[id]]
    /\ UNCHANGED <<bytes, fsys, links, tmpdir, ckptfile, req, runs, mem,
                   progress, current_input, cache_key, invoked, atstart,
                   deleted>>
    /\ UNCHANGED <<calls, file_size, processing_options, priority, tracker>>

\* The body of the loop of run: the sample, update_history, check_thresholds
\* and the log.
Sample(probe) ==
    /\ monitor.pc = "body"
    /\ LET now == monitor.samples + 1
           stats == collect_stats(probe, now)
       IN monitor' = [monitor EXCEPT
              !.history = update_history(@, stats, now),
              !.warnings = check_thresholds(stats),
              !.samples = now,
              !.probe = probe,
              !.pc = "sleep"]
    /\ UNCHANGED <<engine, calls, file_size, processing_options, priority,
                   tracker>>

\* time.sleep(self.interval)
Sleep ==
    /\ monitor.pc = "sleep"
    /\ monitor' = [monitor EXCEPT !.pc = "check"]
    /\ UNCHANGED <<engine, calls, file_size, processing_options, priority,
                   tracker>>

\* resource_monitor.stop(), from cleanup at exit.
MonitorStop ==
    /\ monitor.stopped_at = -1
    /\ monitor' = [monitor EXCEPT !.running = FALSE,
                                  !.stopped_at = monitor.samples]
    /\ UNCHANGED <<engine, calls, file_size, processing_options, priority,
                   tracker>>

\* resource_monitor.join() returns, from cleanup at exit.
MonitorJoin ==
    /\ monitor.stopped_at # -1
    /\ monitor.pc = "ended"
    /\ ~monitor.joined
    /\ monitor' = [monitor EXCEPT !.joined = TRUE]
    /\ UNCHANGED <<engine, calls, file_size, processing_options, priority,
                   tracker>>

MonitorThread ==
    \/ LoopTest
    \/ \E probe \in Probes : Sample(probe)
    \/ Sleep

NextMonitor ==
    \/ LoopTest
    \/ \E probe \in Probes : Sample(probe)
    \/ Sleep
    \/ MonitorStop
    \/ MonitorJoin

SpecMonitor == InitHistory /\ [][NextMonitor]_vars

\* The warnings of the list that carry the text.
WarningsOf(warnings, metric) ==
    {i \in 1..Len(warnings) : warnings[i].metric = metric}

\* C27: after each sample the list of warnings holds one warning for each of
\* CPU, memory, GPU utilization, GPU memory and disk whose reading is over
\* the threshold, and none for the others.
C27_OneWarningPerMetricOver ==
    monitor.pc = "sleep"
        => LET p == monitor.probe
               w == monitor.warnings
               One(metric, over) ==
                   Cardinality(WarningsOf(w, metric)) = IF over THEN 1 ELSE 0
           IN /\ One("CPU usage critical", p.cpu > DEFAULT_THRESHOLD)
              /\ One("Memory usage critical", p.mem > DEFAULT_THRESHOLD)
              /\ One("GPU utilization critical",
                     p.gpu_available /\ p.gpu_util > DEFAULT_THRESHOLD)
              /\ One("GPU memory usage critical",
                     p.gpu_available /\ p.gpu_used > DEFAULT_THRESHOLD)
              /\ One("Disk usage critical",
                     p.disk_ok /\ p.disk_percent > DEFAULT_THRESHOLD)

\* ------------------------------------------- a job while the monitor samples
\* A quiet reading and one that is over the threshold on every metric.
AdvisoryProbes ==
    {QuietProbe,
     [cpu |-> 95, mem |-> 95, gpu_available |-> TRUE, gpu_util |-> 95,
      gpu_used |-> 95, gpu_total |-> 100, disk_ok |-> TRUE,
      disk_percent |-> 95]}

NextAdvisory ==
    \/ \E id \in Solo, request \in PoolRequests : Submit(id, request)
    \/ \E id \in Solo : Start(id)
    \/ \E id \in Solo : Stage(id)
    \/ \E id \in Solo : Finish(id)
    \/ LoopTest
    \/ \E probe \in AdvisoryProbes : Sample(probe)
    \/ Sleep

SpecAdvisory == InitHistory /\ [][NextAdvisory]_vars

\* The next step of the run of id can be taken.
JobCanStep(id) ==
    /\ pc[id] = "queued" => ENABLED Start(id)
    /\ pc[id] \in Stages => ENABLED Stage(id)
    /\ pc[id] = "finish" => ENABLED Finish(id)

\* The next step of the body of the loop of the monitor can be taken.
MonitorCanStep ==
    /\ monitor.pc = "body" => ENABLED (\E probe \in AdvisoryProbes : Sample(probe))
    /\ monitor.pc = "sleep" => ENABLED Sleep

\* C28: warnings are advisory. A step of the monitor, whatever it sampled and
\* whatever warnings it produced, leaves everything a job reads or writes as
\* it was, so the stages invoked and the result do not depend on the samples;
\* a step of a job leaves the monitor as it was; a job that has a next step
\* can take it whatever the monitor is doing, and the monitor likewise.
C28_WarningsAreAdvisory ==
    [][/\ monitor' # monitor => engine' = engine
       /\ engine' # engine => monitor' = monitor
       /\ \A id \in Solo : JobCanStep(id) /\ JobCanStep(id)'
       /\ MonitorCanStep /\ MonitorCanStep']_vars

\* A run went through every stage it was asked for and returned Complete
\* while the last sample of the monitor had produced warnings.
C28_Witness ==
    \E id \in Solo :
        /\ pc[id] = "done" /\ result[id].status = "Complete"
        /\ Len(invoked[id]) = 2
        /\ monitor.warnings # <<>>
        /\ monitor.pc = "sleep"

\* ------------------------------------------------- the monitor at shutdown
\* The thread of the monitor keeps running while it has a step to take, and
\* so does the thread that waits in join.
SpecMonitorLive ==
    /\ InitHistory
    /\ [][NextMonitor]_vars
    /\ WF_vars(MonitorThread)
    /\ WF_vars(MonitorJoin)

\* C29: once stop has been called the loop ends and join returns; the loop
\* takes at most the sample of the iteration that was in progress; no sample
\* is taken after join has returned.
C29_StopEndsSampling ==
    /\ (monitor.stopped_at # -1) ~> monitor.joined
    /\ [](monitor.stopped_at # -1
            => monitor.samples <= monitor.stopped_at + 1)
    /\ [][monitor.joined => monitor'.samples = monitor.samples]_vars

\* stop was called during an iteration, the iteration took its sample, the
\* loop ended and join returned.
C29_Witness ==
    /\ monitor.joined
    /\ monitor.pc = "ended"
    /\ monitor.stopped_at # -1
    /\ monitor.samples = monitor.stopped_at + 1

\* --------------------------------------------------- a tracker on its own
\* Maps of ai_options with a key that names no stage, and with falsy values.
TrackerOptionDicts ==
    OptionDicts \cup
    {<<<<"superres", "x2">>, <<"stabilize", "true">>>>,
     <<<<"superres", "">>, <<"denoise", "false">>>>,
     <<<<"superres", "x2">>, <<"denoise", "true">>, <<"speech2text", "true">>,
       <<"framerateboost", "60">>>>}

TrackerRequests ==
    {[keys |-> <<"input", "fps", "ai_options">>, input |-> i, fps |-> "24",
      ai_options |-> o] : i \in InputLists, o \in TrackerOptionDicts}

\* progress = ProgressTracker(total_steps), as image_to_video makes it.
CreateTracker(request) ==
    /\ tracker = NoTracker
    /\ tracker' = ProgressTracker(total_steps(request), request.ai_options)
    /\ UNCHANGED <<engine, calls, file_size, processing_options, priority,
                   monitor>>

\* progress.update(step), the clock showing elapsed.
CallUpdate(step, elapsed) ==
    /\ tracker # NoTracker
    /\ tracker.updates < MaxUpdates
    /\ elapsed >= tracker.elapsed
    /\ tracker' = update(tracker, step, elapsed)
    /\ UNCHANGED <<engine, calls, file_size, processing_options, priority,
                   monitor>>

NextTracker ==
    \/ \E request \in TrackerRequests : CreateTracker(request)
    \/ \E step \in {0, 1}, elapsed \in 0..MaxElapsed : CallUpdate(step, elapsed)

SpecTracker == InitHistory /\ [][NextTracker]_vars

\* The truthy values among the first n entries of a map.
RECURSIVE CountTruthy(_, _)
CountTruthy(dict, n) ==
    IF n = 0 THEN 0
    ELSE CountTruthy(dict, n - 1) + (IF Truthy(dict[n][2]) THEN 1 ELSE 0)

\* C31: the total of the tracker is 1 plus the number of truthy optional
\* parameters; the remaining time is elapsed / done * (total - done), it is
\* zero when done is 0, with no division by zero, and zero when done equals
\* the total.
C31_TotalAndRemaining ==
    tracker # NoTracker
        => /\ tracker.total_steps
                = 1 + CountTruthy(tracker.ai_options, Len(tracker.ai_options))
           /\ ~tracker.raised
           /\ tracker.remaining.den # 0
           /\ tracker.current_step > 0
                => tracker.remaining.num * tracker.current_step
                     = tracker.elapsed
                         * (tracker.total_steps - tracker.current_step)
                         * tracker.remaining.den
           /\ tracker.current_step = 0 => tracker.remaining.num = 0
           /\ tracker.current_step = tracker.total_steps
                => tracker.remaining.num = 0

\* A tracker of three stages that was updated once with nothing done and
\* has since reached its total, time having passed.
C31_Witness ==
    /\ tracker.total_steps = 3 /\ tracker.current_step = 3
    /\ tracker.updates = 4
    /\ tracker.elapsed > 0

\* ------------------------------------------- claims on completed_steps
\* C32: a stage whose command timed out is not recorded as completed: after
\* the step of the timeout the stage is in completed_steps neither of the
\* checkpoint object nor of the checkpoint file a resubmission loads.
C32_TimedOutNotCompleted ==
    [][\A id \in JobIds :
          StageTimesOut(id)
            => /\ ~InSeq(pc[id], mem'[id].completed_steps)
               /\ ~InSeq(pc[id],
                         load_checkpoint(ckptfile'[id]).completed_steps)]_vars

\* Stage s occurs at most once in the list.
AtMostOnce(s, seq) == Cardinality({i \in 1..Len(seq) : seq[i] = s}) <= 1

\* C33: completed_steps is an ordered set: whatever the runs and
\* resubmissions of a task id, a stage name occurs in it at most once, in the
\* checkpoint object and in the checkpoint file.
C33_CompletedStepsIsSet ==
    \A id \in JobIds :
        \A s \in Stages :
            /\ AtMostOnce(s, mem[id].completed_steps)
            /\ AtMostOnce(s, load_checkpoint(ckptfile[id]).completed_steps)

\* ------------------------------------- the cache key and what it covers
\* Requests over the same two uploads in both orders, with an optional stage
\* left out of ai_options or given as false or null.
FingerprintInputLists == {<<"a.png", "b.png">>, <<"b.png", "a.png">>}

FingerprintOptionDicts ==
    {<<<<"superres", "x2">>>>,
     <<<<"superres", "x2">>, <<"denoise", "false">>>>,
     <<<<"superres", "x2">>, <<"denoise", "null">>>>}

FingerprintRequests ==
    {[keys |-> <<"input", "fps", "ai_options">>, input |-> i, fps |-> "24",
      ai_options |-> o] :
        i \in FingerprintInputLists, o \in FingerprintOptionDicts}

FingerprintUploadPaths == {<<"a.png">>, <<"b.png">>}

FingerprintListPaths == {StrOfList(i) : i \in FingerprintInputLists}

\* The file systems of the model: the uploads are there, a file named as
\* the text of the list may be there.
FingerprintFiles ==
    {b \in [FingerprintUploadPaths \cup FingerprintListPaths
              -> {"absent", "A", "B"}] :
        \A p \in FingerprintUploadPaths : b[p] # "absent"}

InitFingerprint ==
    /\ bytes \in FingerprintFiles
    /\ req \in [JobIds -> FingerprintRequests]
    /\ fsys = [p \in OutPaths |-> NoFile]
    /\ links = {}
    /\ tmpdir = [id \in JobIds |-> "absent"]
    /\ ckptfile = [id \in JobIds |-> NoCheckpointFile]
    /\ pc = [id \in JobIds |-> "queued"]
    /\ runs = [id \in JobIds |-> 1]
    /\ mem = [id \in JobIds |-> EmptyState]
    /\ progress = [id \in JobIds |-> [current_step |-> 0, total_steps |-> 0]]
    /\ current_input = [id \in JobIds |-> NoPath]
    /\ cache_key = [id \in JobIds |-> NoPath]
    /\ result = [id \in JobIds |-> NoResult]
    /\ invoked = [id \in JobIds |-> <<>>]
    /\ atstart = [id \in JobIds |-> NoSnapshot]
    /\ deleted = <<>>
    /\ StandaloneIdle

SpecFingerprint == InitFingerprint /\ [][NextKey]_vars

\* The file system files holds other bytes than bytes in an upload of the
\* request.
ChangedInput(files, request) ==
    \E n \in 1..Len(request.input) :
        files[<<request.input[n]>>] # bytes[<<request.input[n]>>]

\* The key of the request in the file system files, NoPath when get_cache_key
\* raises.
KeyIn(files, request) ==
    IF KeyRaises(files, StrOfList(request.input)) THEN NoPath
    ELSE get_cache_key(files, StrOfList(request.input), "image_to_video",
                       request)

\* C34: the key covers the content of the whole ordered input set: the key a
\* job got differs from the key the same request gets once the bytes of one
\* of its uploads have changed, and from the key of a job with the same
\* parameters over the same uploads in another order.
C34_KeyCoversContentAndOrder ==
    \A id \in JobIds :
        pc[id] = "keyed"
            => /\ \A files \in FingerprintFiles :
                     ChangedInput(files, req[id])
                        => KeyIn(files, req[id]) # cache_key[id]
               /\ \A id2 \in JobIds :
                     (/\ pc[id2] = "keyed"
                      /\ req[id2].ai_options = req[id].ai_options
                      /\ req[id2].input # req[id].input)
                        => cache_key[id2] # cache_key[id]

\* What a request asks of the optional stage of key k: its value when
\* truthy, nothing when the key is absent or its value is falsy.
Effective(request, k) ==
    IF Truthy(DictGet(request.ai_options, k))
    THEN DictGet(request.ai_options, k) ELSE "None"

OptionKeys == {"superres", "denoise", "speech2text", "framerateboost"}

\* C35: two jobs over the same inputs whose requests differ only in whether
\* an optional stage they do not ask for is absent from ai_options or
\* present with a falsy value get the same key.
C35_KeyOfEffectiveParameters ==
    \A id1, id2 \in JobIds :
        (/\ pc[id1] = "keyed" /\ pc[id2] = "keyed"
         /\ req[id1].input = req[id2].input
         /\ req[id1].fps = req[id2].fps
         /\ \A k \in OptionKeys :
               Effective(req[id1], k) = Effective(req[id2], k))
            => cache_key[id1] = cache_key[id2]

\* ------------------------------------- claims on the end of the checkpoint
\* The run of id is under way: image_to_video has been entered and has not
\* returned.
InFlight(id) == pc[id] \in {"queued", "finish"} \cup Stages

\* C36: a step of the run of a job deletes the checkpoint file of the job
\* only when the cache holds the entry of the key of the run after the step,
\* and a run that ends without Complete after its last stage, the entry not
\* having been stored, leaves the checkpoint file in place.
C36_CheckpointOutlivesCaching ==
    [][\A id \in Solo :
          /\ (InFlight(id) /\ ckptfile[id].exists /\ ~ckptfile'[id].exists)
                => \E l \in links' : l.key = cache_key'[id]
          /\ (pc[id] = "finish" /\ pc'[id] = "done"
              /\ result'[id].status # "Complete")
                => ckptfile'[id].exists]_vars

\* --------------------------------------------- the thresholds of the sizes
\* C37: a size equal to the large-input threshold is classified as the
\* larger sizes are, Low, and a size equal to the small-input threshold is
\* not classified High.
C37_ThresholdsInclusiveExclusive ==
    priority # -1
        => /\ file_size = LARGE_FILE
                => /\ priority = LOW
                   /\ priority = get_task_priority(LARGE_FILE + 1,
                                                   processing_options)
           /\ file_size = SMALL_FILE => priority # HIGH

\* ------------------------------------------------- claims on last_error
\* The last command of the run of id failed or timed out.
LastCommandFailed(id) ==
    /\ invoked[id] # <<>>
    /\ invoked[id][Len(invoked[id])].outcome # "ok"

\* C38: in every checkpoint state with last_error set, last_error.step is a
\* stage, the one whose command most recently failed or timed out, and
\* last_error.count is the error counter of that stage; only stages have an
\* error counter.
C38_LastErrorNamesFailedStage ==
    \A id \in JobIds :
        LET st == mem[id]
        IN /\ st.last_error # NoError
                => /\ st.last_error.step \in Stages
                   /\ st.last_error.count = st.error_count[st.last_error.step]
           /\ (pc[id] = "done" /\ LastCommandFailed(id))
                => st.last_error.step
                     = invoked[id][Len(invoked[id])].command.stage
           /\ \A s \in StepNames : st.error_count[s] > 0 => s \in Stages

\* -------------------------------------- two jobs and the sweep of TEMP_DIR
NextSweep ==
    \/ \E id \in JobIds, request \in PoolRequests : Submit(id, request)
    \/ \E id \in JobIds : Start(id)
    \/ \E id \in JobIds : Stage(id)
    \/ \E id \in JobIds : Finish(id)
    \/ \E id \in JobIds : Age(id)

SpecSweep == Init /\ [][NextSweep]_vars

\* image_to_video of id has made its temp directory and has not returned.
Running(id) == pc[id] \in Stages \cup {"finish"}

\* C39: no step of the run of a job deletes the temp directory or the
\* checkpoint file of another job whose run is under way, and the checkpoint
\* file of a job goes only in the step that ends a run of that job with
\* Complete.
C39_InFlightStateIsNotSwept ==
    [][\A id \in JobIds :
          /\ (Running(id) /\ pc'[id] = pc[id])
                => /\ tmpdir[id] # "absent" => tmpdir'[id] # "absent"
                   /\ ckptfile[id].exists => ckptfile'[id].exists
          /\ (ckptfile[id].exists /\ ~ckptfile'[id].exists)
                => (pc[id] = "finish" /\ result'[id].status = "Complete")]_vars

\* ------------------------------------------ runs over every kind of map
NextOptions ==
    \/ \E id \in Solo, request \in TrackerRequests : Submit(id, request)
    \/ \E id \in Solo : Start(id)
    \/ \E id \in Solo : Stage(id)
    \/ \E id \in Solo : Finish(id)

SpecOptions == Init /\ [][NextOptions]_vars

\* C40: in every state of a run the steps done of its tracker do not exceed
\* its total steps, and a run that returned Complete without a cache hit
\* ended with steps done equal to total steps, whatever the map of options.
C40_StepsDoneWithinTotal ==
    \A id \in Solo :
        /\ pc[id] \notin {"new", "queued"}
              => progress[id].current_step <= progress[id].total_steps
        /\ (pc[id] = "done" /\ result[id].status = "Complete"
            /\ ~result[id].cached)
              => progress[id].current_step = progress[id].total_steps

====
